---- MODULE Spec2Model ----
\* Streaming chat relay of the customer-support backend: the chunk decoder
\* (AIService.parseStreamResponse), the relay client (AIService.streamMessage /
\* sendMessage), the conversation store (Conversation model, ChatService) and
\* the send handler of the chat controller (sendMessage).
\*
\* Text is a sequence of one-character strings.  Upstream bytes are the same
\* symbols, except that the two-byte character "e2" travels as the lead byte
\* "L" followed by the continuation byte "C".  "NL" is the line feed, " " is
\* white space, "d" stands for the five characters `data:`, so that the marker
\* `data: ` is the two symbols "d", " ".  "D" stands for the text `[DONE]`, "7"
\* for a JSON number, "{" ... "}" for a JSON object whose delta content is the
\* text between the braces.
EXTENDS Integers, Sequences, FiniteSets, TLC

VARIABLES
    db,         \* the conversations collection: customId -> stored document
    pc,         \* position of the request handler
    req,        \* the validated request body (and the authenticated user)
    doc,        \* the conversation object held by ChatService during a send
    relay,      \* outcome of the upstream relay call of this request
    result,     \* what ChatService has for the controller: the fields of the
                \* value it returns, or the error it throws
    pend,       \* TextDecoder: bytes of an unfinished character
    buffer,     \* parseStreamResponse: text of the unfinished line
    queue,      \* ReadableStream: chunks enqueued and not yet read
    sstate,     \* ReadableStream: "none", "readable", "closing", "errored"
    pumpOn,     \* the pump() chain has a read outstanding on the upstream body
    reads,      \* number of upstream reads delivered so far
    decoded,    \* history: every chunk the decoder enqueued, in order
    consumed,   \* history: every chunk reader.read() handed to the controller
    termin,     \* how the controller's read loop ended: "none", "done", "error"
    acc,        \* aiResponseContent
    frames,     \* what was written to the response with res.write
    ends,       \* number of times the response was ended
    status,     \* HTTP status of a JSON response (0: none sent)
    save,       \* outcome of the final assistant save: "none", "ok", "failed"
    src,        \* decoder harness: the lines the upstream body is made of
    body,       \* decoder harness: the whole upstream byte sequence
    pos,        \* decoder harness: number of bytes already delivered
    past,       \* history: the requests already answered, oldest first
    sent,       \* history: the HTTP requests issued upstream for this request
    gone,       \* the client has closed the connection of this request
    db0,        \* history: the collection as it was when this request came in
    dbOps,      \* history: store calls (findOne, save, delete) of this request
    other,      \* a second send running at the same time: its position and
                \* the conversation object it holds
    upstream,   \* history: how the reads of the upstream body went: "open",
                \* "ended" (a read returned done), "failed" (a read rejected)
    client      \* the browser's sendMessageStream call: the callbacks it has
                \* made and whether it has returned

vars == <<db, pc, req, doc, relay, result, pend, buffer, queue, sstate, pumpOn,
          reads, decoded, consumed, termin, acc, frames, ends, status, save,
          client, upstream, src, body, pos, past, sent, gone, db0, dbOps, other>>

streamVars == <<pend, buffer, queue, sstate, pumpOn, decoded>>
handlerVars == <<db, pc, req, doc, relay, result, consumed, termin, acc,
                 frames, ends, status, save>>

-----------------------------------------------------------------------------
\* Bounds of the model.

\* upstream reads delivered to one streaming session
MaxReads == 3
\* lines of an upstream body given to the decoder harness
MaxLines == 3
\* requests answered one after the other
MaxRequests == 2
\* messages of a stored conversation whose roles are drawn freely
MaxHistory == 3
\* upstream reads of a streaming session when requests follow each other
MaxSeqReads == 1
\* content frames of a response given to the client harness
MaxFrames == 2

-----------------------------------------------------------------------------
\* Text helpers.

WS == {" "}

RECURSIVE TrimStart(_)
TrimStart(s) ==
    IF s = <<>> THEN <<>>
    ELSE IF Head(s) \in WS THEN TrimStart(Tail(s)) ELSE s

RECURSIVE TrimEnd(_)
TrimEnd(s) ==
    IF s = <<>> THEN <<>>
    ELSE IF s[Len(s)] \in WS THEN TrimEnd(SubSeq(s, 1, Len(s) - 1)) ELSE s

\* String.prototype.trim
Trim(s) == TrimEnd(TrimStart(s))

\* String.prototype.startsWith
StartsWith(s, p) == Len(s) >= Len(p) /\ SubSeq(s, 1, Len(p)) = p

\* String.prototype.slice(n)
Slice(s, n) == SubSeq(s, n + 1, Len(s))

RECURSIVE Flatten(_)
Flatten(ss) == IF ss = <<>> THEN <<>> ELSE Head(ss) \o Flatten(Tail(ss))

IsPrefix(s, t) == Len(s) <= Len(t) /\ SubSeq(t, 1, Len(s)) = s

-----------------------------------------------------------------------------
\* Chunk decoder: AIService.parseStreamResponse.

\* TextDecoder.decode(value, {stream: true}) for UTF-8: a lead byte waits for
\* its continuation byte, also across calls; a lead byte followed by anything
\* else and a stray continuation byte decode to U+FFFD ("?").
RECURSIVE Utf8Decode(_, _, _)
Utf8Decode(p, bytes, out) ==
    IF bytes = <<>> THEN [text |-> out, pend |-> p]
    ELSE LET b == Head(bytes) IN
         IF p # <<>>
         THEN IF b = "C" THEN Utf8Decode(<<>>, Tail(bytes), Append(out, "e2"))
              ELSE Utf8Decode(<<>>, bytes, Append(out, "?"))
         ELSE IF b = "L" THEN Utf8Decode(<<"L">>, Tail(bytes), out)
              ELSE IF b = "C" THEN Utf8Decode(<<>>, Tail(bytes), Append(out, "?"))
              ELSE Utf8Decode(<<>>, Tail(bytes), Append(out, b))

\* TextDecoder.decode(value) without the stream flag: an unfinished character
\* at the end of the value is flushed as U+FFFD.
DecodeNoStream(p, bytes, out) ==
    LET r == Utf8Decode(p, bytes, out) IN
    IF r.pend = <<>> THEN r ELSE [text |-> Append(r.text, "?"), pend |-> <<>>]

Decode(p, bytes, out) == Utf8Decode(p, bytes, out)

\* String.prototype.split('\n'): always at least one element.
RECURSIVE SplitLines(_, _, _)
SplitLines(s, cur, out) ==
    IF s = <<>> THEN Append(out, cur)
    ELSE IF Head(s) = "NL" THEN SplitLines(Tail(s), <<>>, Append(out, cur))
         ELSE SplitLines(Tail(s), Append(cur, Head(s)), out)

\* Characters that may stand between the braces of a JSON object.
ContentChars == {"x", "e2", "?", " "}

\* JSON.parse(data): ok is FALSE when it throws; obj tells a JSON object from
\* another JSON value; content is choices[0].delta.content ("" when absent).
JsonParse(data) ==
    IF /\ Len(data) >= 2
       /\ data[1] = "{"
       /\ data[Len(data)] = "}"
       /\ \A i \in 2..(Len(data) - 1) : data[i] \in ContentChars
    THEN [ok |-> TRUE, obj |-> TRUE, content |-> SubSeq(data, 2, Len(data) - 1)]
    ELSE IF data = <<"7">>
         THEN [ok |-> TRUE, obj |-> FALSE, content |-> <<>>]
         ELSE [ok |-> FALSE, obj |-> FALSE, content |-> <<>>]

Marker == <<"d", " ">>
Sentinel == <<"D">>

\* One iteration of the line loop: "done" for the sentinel, "event" for a
\* chunk that is enqueued, "skip" for a line that is passed over, "throw" for
\* an exception that leaves the loop.
ProcessLineAbort(line) ==
    LET trimmedLine == Trim(line) IN
    IF StartsWith(trimmedLine, Marker)
    THEN LET data == Trim(Slice(trimmedLine, 2)) IN
         IF data = Sentinel THEN [kind |-> "done", content |-> <<>>]
         ELSE IF data = <<>> THEN [kind |-> "skip", content |-> <<>>]
         ELSE LET parsed == JsonParse(data) IN
              IF parsed.ok /\ parsed.obj
              THEN [kind |-> "event", content |-> parsed.content]
              ELSE IF parsed.ok THEN [kind |-> "skip", content |-> <<>>]
                   ELSE [kind |-> "throw", content |-> <<>>]
    ELSE [kind |-> "skip", content |-> <<>>]

ProcessLine(line) ==
    LET trimmedLine == Trim(line) IN
    IF StartsWith(trimmedLine, Marker)
    THEN LET data == Trim(Slice(trimmedLine, 2)) IN
         IF data = Sentinel THEN [kind |-> "done", content |-> <<>>]
         ELSE IF data = <<>> THEN [kind |-> "skip", content |-> <<>>]
         ELSE LET parsed == JsonParse(data) IN
              IF parsed.ok /\ parsed.obj
              THEN [kind |-> "event", content |-> parsed.content]
              ELSE [kind |-> "skip", content |-> <<>>]
    ELSE [kind |-> "skip", content |-> <<>>]

\* for (const line of lines): stops at the sentinel; an exception that
\* leaves the loop is caught by catch (decodeError).
RECURSIVE ProcessLines(_, _)
ProcessLines(lines, out) ==
    IF lines = <<>> THEN [events |-> out, closed |-> FALSE, failed |-> FALSE]
    ELSE LET r == ProcessLine(Head(lines)) IN
         IF r.kind = "done" THEN [events |-> out, closed |-> TRUE, failed |-> FALSE]
         ELSE IF r.kind = "throw" THEN [events |-> out, closed |-> FALSE, failed |-> TRUE]
         ELSE IF r.kind = "event"
              THEN ProcessLines(Tail(lines), Append(out, [content |-> r.content]))
              ELSE ProcessLines(Tail(lines), out)

\* buffer = lines.pop() || ''
KeepLast(lines) == lines[Len(lines)]
Remainder(lines) == KeepLast(lines)

\* The body of pump()'s then-callback for a read that returned a value.
PumpRead(p, buf, value) ==
    LET dec   == Decode(p, value, <<>>)
        lines == SplitLines(buf \o dec.text, <<>>, <<>>)
        r     == ProcessLines(SubSeq(lines, 1, Len(lines) - 1), <<>>)
    IN [pend |-> dec.pend, buffer |-> Remainder(lines),
        events |-> r.events, closed |-> r.closed, failed |-> r.failed]

-----------------------------------------------------------------------------
\* Conversation store: the Conversation model and its documents.

Users == {"u1", "u2"}

\* isValidConversationId: ^conv_\d+_[a-f0-9]{12}$ ; "bad" stands for an id
\* that does not match, the others for ids that do.
ValidConvIds == {"c1", "c2", "c3", "g1", "g2", "g3", "g4"}
isValidConversationId(id) == id \in ValidConvIds

\* generateConversationId(): a timestamp and twelve random hex digits; every
\* request gets an id no earlier request got
GeneratedIds == <<"g1", "g2", "g3", "g4">>
GeneratedId == GeneratedIds[Len(past) + 1]

\* aiService.getDefaultModel()
DefaultModel == "llama"

\* 'New Conversation'
DefaultTitle == <<"N", "C">>

\* messageSchema / conversationSchema limits
MaxMessages == 100
MaxContentLen == 10000
TitleLen == 50

Min(a, b) == IF a < b THEN a ELSE b

\* Conversation.createConversation(userId, undefined, model) with the
\* customId the caller ends up with; isNew and saved belong to the mongoose
\* document: saved is the number of messages the database already holds.
NewDoc(userId, id, model) ==
    [customId |-> id, userId |-> userId, title |-> DefaultTitle,
     model |-> model, messages |-> <<>>, isNew |-> TRUE, saved |-> 0]

NullDoc == NewDoc("nobody", "none", "none")

\* the document findOne hands back for a stored conversation
Load(stored) ==
    [customId |-> stored.customId, userId |-> stored.userId,
     title |-> stored.title, model |-> stored.model,
     messages |-> stored.messages, isNew |-> FALSE,
     saved |-> Len(stored.messages)]

\* what the collection keeps of a document
Stored(d) ==
    [customId |-> d.customId, userId |-> d.userId, title |-> d.title,
     model |-> d.model, messages |-> d.messages]

\* Conversation.findByCustomIdAndUser / findOne({customId, userId})
FoundAnyOwner(dbv, id, userId) == id \in DOMAIN dbv

Found(dbv, id, userId) == id \in DOMAIN dbv /\ dbv[id].userId = userId

\* conversationSchema.methods.addMessage; the content setter trims
AddMessageRaw(d, role, content) ==
    [d EXCEPT !.messages = Append(@, [role |-> role, content |-> content])]

AddMessage(d, role, content) ==
    [d EXCEPT !.messages = Append(@, [role |-> role, content |-> Trim(content)])]

\* conversationSchema.pre('save'): the title of a new document
FirstUser(msgs) ==
    LET idx == {i \in 1..Len(msgs) : msgs[i].role = "user"} IN
    IF idx = {} THEN 0 ELSE CHOOSE i \in idx : \A j \in idx : i <= j

PreSave(d) ==
    IF d.isNew /\ Len(d.messages) > 0 /\ d.title = DefaultTitle
       /\ FirstUser(d.messages) # 0
    THEN LET c == d.messages[FirstUser(d.messages)].content
             t == Trim(SubSeq(c, 1, Min(TitleLen, Len(c))))
         IN [d EXCEPT !.title =
                IF Len(t) < Len(c) THEN t \o <<".", ".", ".">> ELSE t]
    ELSE d

\* schema validation run by save()
Valid(d) ==
    /\ Len(d.messages) <= MaxMessages
    /\ \A i \in 1..Len(d.messages) :
          /\ d.messages[i].content # <<>>
          /\ Len(d.messages[i].content) <= MaxContentLen

\* document.save(): up is FALSE when the database refuses the operation.
\* A new document is inserted (customId is unique), a loaded one has its
\* pushed messages appended to the stored list.
SaveDocOverwrite(dbv, d0, up) ==
    LET d == PreSave(d0) IN
    IF ~Valid(d) THEN [ok |-> FALSE, error |-> "ValidationError", db |-> dbv, doc |-> d]
    ELSE IF ~up THEN [ok |-> FALSE, error |-> "MongoNetworkError", db |-> dbv, doc |-> d]
    ELSE IF d.isNew
    THEN IF d.customId \in DOMAIN dbv
         THEN [ok |-> FALSE, error |-> "MongoError11000", db |-> dbv, doc |-> d]
         ELSE [ok |-> TRUE, error |-> "none",
               db |-> dbv @@ (d.customId :> Stored(d)),
               doc |-> [d EXCEPT !.isNew = FALSE, !.saved = Len(d.messages)]]
    ELSE IF d.customId \notin DOMAIN dbv
    THEN [ok |-> FALSE, error |-> "DocumentNotFoundError", db |-> dbv, doc |-> d]
    ELSE [ok |-> TRUE, error |-> "none",
          db |-> [dbv EXCEPT ![d.customId].messages = d.messages],
          doc |-> [d EXCEPT !.saved = Len(d.messages)]]

SaveDoc(dbv, d0, up) ==
    LET d == PreSave(d0) IN
    IF ~Valid(d) THEN [ok |-> FALSE, error |-> "ValidationError", db |-> dbv, doc |-> d]
    ELSE IF ~up THEN [ok |-> FALSE, error |-> "MongoNetworkError", db |-> dbv, doc |-> d]
    ELSE IF d.isNew
    THEN IF d.customId \in DOMAIN dbv
         THEN [ok |-> FALSE, error |-> "MongoError11000", db |-> dbv, doc |-> d]
         ELSE [ok |-> TRUE, error |-> "none",
               db |-> dbv @@ (d.customId :> Stored(d)),
               doc |-> [d EXCEPT !.isNew = FALSE, !.saved = Len(d.messages)]]
    ELSE IF d.saved = Len(d.messages)
    THEN [ok |-> TRUE, error |-> "none", db |-> dbv, doc |-> d]
    ELSE IF d.customId \notin DOMAIN dbv
    THEN [ok |-> FALSE, error |-> "DocumentNotFoundError", db |-> dbv, doc |-> d]
    ELSE [ok |-> TRUE, error |-> "none",
          db |-> [dbv EXCEPT ![d.customId].messages =
                     @ \o SubSeq(d.messages, d.saved + 1, Len(d.messages))],
          doc |-> [d EXCEPT !.saved = Len(d.messages)]]

\* save() of a loaded document after `title = ...` or clearMessages(): the
\* changed path is set
SaveField(dbv, d, field, up) ==
    IF ~Valid(d) THEN [ok |-> FALSE, error |-> "ValidationError", db |-> dbv, doc |-> d]
    ELSE IF ~up THEN [ok |-> FALSE, error |-> "MongoNetworkError", db |-> dbv, doc |-> d]
    ELSE IF d.customId \notin DOMAIN dbv
    THEN [ok |-> FALSE, error |-> "DocumentNotFoundError", db |-> dbv, doc |-> d]
    ELSE [ok |-> TRUE, error |-> "none",
          db |-> IF field = "title"
                 THEN [dbv EXCEPT ![d.customId].title = d.title]
                 ELSE [dbv EXCEPT ![d.customId].messages = d.messages],
          doc |-> [d EXCEPT !.saved = Len(d.messages)]]

\* Conversation.findByIdAndDelete
DeleteDoc(dbv, d, up) ==
    IF ~up THEN [ok |-> FALSE, error |-> "MongoNetworkError", db |-> dbv, doc |-> d]
    ELSE [ok |-> TRUE, error |-> "none",
          db |-> [id \in DOMAIN dbv \ {d.customId} |-> dbv[id]], doc |-> d]

\* errorHandler: the status of the JSON error response
ErrorStatus(error) ==
    IF error = "AppError400" THEN 400
    ELSE IF error = "ValidationError" THEN 400
    ELSE IF error = "MongoError11000" THEN 409
    ELSE 500

\* the `error` member of the JSON body errorHandler sends
ErrorMessage(error) ==
    IF error = "AppError400" THEN "Invalid conversation ID format"
    ELSE IF error = "ValidationError" THEN "Validation error"
    ELSE IF error = "MongoError11000" THEN "Duplicate entry"
    ELSE "Internal server error"

-----------------------------------------------------------------------------
\* Initial state: the server is idle; the collection holds a conversation of
\* u1 (empty, or with one exchange) and a conversation of u2.

OldMessages ==
    <<[role |-> "user", content |-> <<"q">>],
      [role |-> "assistant", content |-> <<"r">>]>>

InitialDbs ==
    {   ("c1" :> [customId |-> "c1", userId |-> "u1", title |-> DefaultTitle,
                  model |-> DefaultModel, messages |-> m])
     @@ ("c2" :> [customId |-> "c2", userId |-> "u2", title |-> DefaultTitle,
                  model |-> DefaultModel, messages |-> OldMessages])
     : m \in {<<>>, OldMessages} }

NoRequest ==
    [op |-> "none", userId |-> "nobody", message |-> <<>>,
     conversationId |-> "absent", model |-> "absent", stream |-> FALSE,
     title |-> <<>>]

NoResult ==
    [conversationId |-> "none", model |-> "none", error |-> "none",
     message |-> <<>>, usage |-> "none"]

\* Bodies the validated request can carry (validationSchemas.chatMessage):
\* a non-empty message, an optional conversation id ("empty": the empty
\* string), model and stream flag.
Requests ==
    [op : {"send"}, userId : {"u1"}, message : {<<"h">>},
     conversationId : {"absent", "empty", "c1", "c2", "c3", "bad"},
     model : {"absent", "m1"}, stream : BOOLEAN, title : {<<>>}]

\* get, delete, rename and clear of the conversation named in the path
\* (validationSchemas.conversationId, renameConversation: a non-empty id, a
\* non-empty title)
OpRequests ==
    [op : {"get", "delete", "rename", "clear"}, userId : {"u1"},
     message : {<<>>}, conversationId : {"c1", "c2", "c3", "bad"},
     model : {"absent"}, stream : {FALSE}, title : {<<"t", " ">>}]

NoOther == [pc |-> "idle", doc |-> NullDoc]

\* sendMessageStream before its first read: no callback made yet
NoClient == [chunks |-> <<>>, completes |-> <<>>, errors |-> <<>>, returned |-> FALSE]

HandlerInit ==
    /\ db \in InitialDbs
    /\ pc = "idle"
    /\ req = NoRequest
    /\ doc = NullDoc
    /\ relay = "none"
    /\ result = NoResult
    /\ consumed = <<>>
    /\ termin = "none"
    /\ acc = <<>>
    /\ frames = <<>>
    /\ ends = 0
    /\ status = 0
    /\ save = "none"
    /\ past = <<>>
    /\ sent = <<>>
    /\ gone = FALSE
    /\ db0 = db
    /\ dbOps = 0
    /\ other = NoOther
    /\ upstream = "open"
    /\ client = NoClient

StreamInit ==
    /\ pend = <<>>
    /\ buffer = <<>>
    /\ queue = <<>>
    /\ sstate = "none"
    /\ pumpOn = FALSE
    /\ decoded = <<>>

Init ==
    /\ HandlerInit
    /\ StreamInit
    /\ reads = 0
    /\ src = <<>>
    /\ body = <<>>
    /\ pos = 0

-----------------------------------------------------------------------------
\* The response object.

ConversationFrame(id, model) ==
    [type |-> "conversation", conversationId |-> id, model |-> model,
     content |-> <<>>, error |-> "none"]

ContentFrame(content) ==
    [type |-> "content", conversationId |-> "none", model |-> "none",
     content |-> content, error |-> "none"]

ErrorFrame(error) ==
    [type |-> "error", conversationId |-> "none", model |-> "none",
     content |-> <<>>, error |-> error]

\* res.write
WriteFront(fr, f) == <<f>> \o fr
Write(fr, f) == Append(fr, f)

-----------------------------------------------------------------------------
\* chat.controller sendMessage: entry and id validation.

\* `if (conversationId ...)`: the id is neither undefined nor the empty string
Given(id) == id \notin {"absent", "empty"}

ReceiveNoCheck(r) ==
    /\ pc = "idle"
    /\ req' = r
    /\ result' = result
    /\ pc' = IF r.stream THEN "sResolve" ELSE "nResolve"
    /\ UNCHANGED <<db, doc, relay, consumed, termin, acc, frames, ends, status,
                   save, reads, past, sent, gone, db0, dbOps, other, client, upstream, src, body, pos>>
    /\ UNCHANGED streamVars

Receive(r) ==
    /\ pc = "idle"
    /\ req' = r
    /\ IF Given(r.conversationId) /\ ~isValidConversationId(r.conversationId)
       THEN /\ result' = [result EXCEPT !.error = "AppError400"]
            /\ pc' = "errorHandler"
       ELSE /\ result' = result
            /\ pc' = IF r.stream THEN "sResolve" ELSE "nResolve"
    /\ UNCHANGED <<db, doc, relay, consumed, termin, acc, frames, ends, status,
                   save, reads, past, sent, gone, db0, dbOps, other, client, upstream, src, body, pos>>
    /\ UNCHANGED streamVars

\* asyncHandler -> errorHandler: the JSON error response
ErrorHandler ==
    /\ pc = "errorHandler"
    /\ status' = ErrorStatus(result.error)
    /\ ends' = ends + 1
    /\ pc' = "done"
    /\ UNCHANGED <<db, req, doc, relay, result, consumed, termin, acc, frames,
                   save, reads, past, sent, gone, db0, dbOps, other, client, upstream, src, body, pos>>
    /\ UNCHANGED streamVars

-----------------------------------------------------------------------------
\* ChatService.streamMessage.

RequestedModel(r) == IF r.model = "absent" THEN DefaultModel ELSE r.model

\* get or create conversation: the lookup
SResolveAlwaysCreate ==
    /\ pc = "sResolve"
    /\ dbOps' = dbOps
    /\ doc' = NewDoc(req.userId,
                     IF Given(req.conversationId) THEN req.conversationId
                     ELSE GeneratedId, RequestedModel(req))
    /\ pc' = "sCreate"
    /\ UNCHANGED <<db, req, relay, result, consumed, termin, acc, frames, ends,
                   status, save, reads, past, sent, gone, db0, other, client, upstream, src, body, pos>>
    /\ UNCHANGED streamVars

SResolve ==
    /\ pc = "sResolve"
    /\ dbOps' = dbOps + (IF Given(req.conversationId) THEN 1 ELSE 0)
    /\ IF Given(req.conversationId)
       THEN IF Found(db, req.conversationId, req.userId)
            THEN /\ doc' = Load(db[req.conversationId])
                 /\ pc' = "sAddUser"
            ELSE /\ doc' = NewDoc(req.userId, req.conversationId, RequestedModel(req))
                 /\ pc' = "sCreate"
       ELSE /\ doc' = NewDoc(req.userId, GeneratedId, RequestedModel(req))
            /\ pc' = "sCreate"
    /\ UNCHANGED <<db, req, relay, result, consumed, termin, acc, frames, ends,
                   status, save, reads, past, sent, gone, db0, other, client, upstream, src, body, pos>>
    /\ UNCHANGED streamVars

\* get or create conversation: save of the new conversation
SCreate ==
    /\ pc = "sCreate"
    /\ dbOps' = dbOps + 1
    /\ \E up \in BOOLEAN :
          LET r == SaveDoc(db, doc, up) IN
          /\ db' = r.db
          /\ doc' = r.doc
          /\ IF r.ok THEN pc' = "sAddUser" /\ result' = result
             ELSE pc' = "sServiceError" /\ result' = [result EXCEPT !.error = r.error]
    /\ UNCHANGED <<req, relay, consumed, termin, acc, frames, ends, status,
                   save, reads, past, sent, gone, db0, other, client, upstream, src, body, pos>>
    /\ UNCHANGED streamVars

\* add user message, save the conversation with the user message
SAddUserSkipSave ==
    /\ pc = "sAddUser"
    /\ doc' = AddMessage(doc, "user", req.message)
    /\ pc' = "sRelay"
    /\ UNCHANGED <<db, result>>
    /\ UNCHANGED <<req, relay, consumed, termin, acc, frames, ends, status,
                   save, reads, past, sent, gone, db0, dbOps, other, client, upstream, src, body, pos>>
    /\ UNCHANGED streamVars

SAddUser ==
    /\ pc = "sAddUser"
    /\ dbOps' = dbOps + 1
    /\ \E up \in BOOLEAN :
          LET r == SaveDoc(db, AddMessage(doc, "user", req.message), up) IN
          /\ db' = r.db
          /\ doc' = r.doc
          /\ IF r.ok THEN pc' = "sRelay" /\ result' = result
             ELSE pc' = "sServiceError" /\ result' = [result EXCEPT !.error = r.error]
    /\ UNCHANGED <<req, relay, consumed, termin, acc, frames, ends, status,
                   save, reads, past, sent, gone, db0, other, client, upstream, src, body, pos>>
    /\ UNCHANGED streamVars

\* AIService.streamMessage: what the call can come to.  "nokey": the API key
\* is not set; "network": fetch rejects; "http401" ...: a non-2xx response;
\* "nobody": a 2xx response without a body; "ok": parseStreamResponse returned
\* the stream, whose start() has called pump().
StreamOutcomes ==
    {"ok", "nokey", "network", "http401", "http429", "http500", "http503",
     "nobody"}

\* DEFAULT_SYSTEM_PROMPT as a message
SystemMessage == [role |-> "system", content |-> <<"S">>]

\* AIService.prepareMessages
prepareMessagesAlways(messages) == <<SystemMessage>> \o messages

prepareMessages(messages) ==
    IF \E i \in 1..Len(messages) : messages[i].role = "system"
    THEN messages
    ELSE <<SystemMessage>> \o messages

\* requestData of one upstream HTTP request; none is issued without API key
RequestData(d, stream) ==
    [stream |-> stream, model |-> d.model, messages |-> prepareMessages(d.messages)]

Issue(log, o, d, stream) ==
    IF o = "nokey" THEN log ELSE Append(log, RequestData(d, stream))

\* the Error AIService.streamMessage throws: `OpenRouter API error (status)`
\* for every non-2xx response, whatever the status
StreamError(o) ==
    IF o = "nokey" THEN "NoApiKey"
    ELSE IF o = "network" THEN "FetchFailed"
    ELSE IF o = "nobody" THEN "NoBody"
    ELSE "ApiError"

SRelay ==
    /\ pc = "sRelay"
    /\ \E o \in StreamOutcomes :
          /\ relay' = o
          /\ sent' = Issue(sent, o, doc, TRUE)
          /\ IF o = "ok"
             THEN /\ sstate' = "readable"
                  /\ pumpOn' = TRUE
                  /\ result' = [result EXCEPT !.conversationId = doc.customId,
                                              !.model = doc.model]
                  /\ pc' = "sHeaders"
             ELSE /\ sstate' = sstate
                  /\ pumpOn' = pumpOn
                  /\ result' = [result EXCEPT !.error = StreamError(o)]
                  /\ pc' = "sServiceError"
    /\ UNCHANGED <<db, req, doc, consumed, termin, acc, frames, ends, status,
                   save, reads, past, gone, db0, dbOps, other, client, upstream, src, body, pos, pend, buffer, queue, decoded>>

-----------------------------------------------------------------------------
\* The ReadableStream built by parseStreamResponse and its pump() chain.

\* controller.enqueue of every event of one read, controller.close() on the
\* sentinel, controller.error in catch (decodeError); the chain calls pump()
\* again unless it returned.
PumpValueNoClose(value) ==
    \E r \in {PumpRead(pend, buffer, value)} :
    /\ pend' = r.pend
    /\ buffer' = r.buffer
    /\ queue' = IF r.failed THEN <<>> ELSE queue \o r.events
    /\ decoded' = decoded \o r.events
    /\ sstate' = IF r.failed THEN "errored" ELSE sstate
    /\ pumpOn' = ~r.failed

PumpValue(value) ==
    \E r \in {PumpRead(pend, buffer, value)} :
    /\ pend' = r.pend
    /\ buffer' = r.buffer
    /\ queue' = IF r.failed THEN <<>> ELSE queue \o r.events
    /\ decoded' = decoded \o r.events
    /\ sstate' = IF r.failed THEN "errored"
                 ELSE IF r.closed THEN "closing" ELSE sstate
    /\ pumpOn' = ~(r.closed \/ r.failed)

\* reader.read() returned done: controller.close()
PumpClose ==
    /\ sstate' = "closing"
    /\ pumpOn' = FALSE
    /\ UNCHANGED <<pend, buffer, queue, decoded>>

\* reader.read() rejected: controller.error(error), which also empties the
\* stream's queue
PumpErrorAsClose ==
    /\ sstate' = "closing"
    /\ pumpOn' = FALSE
    /\ UNCHANGED <<pend, buffer, queue, decoded>>

PumpError ==
    /\ queue' = <<>>
    /\ sstate' = "errored"
    /\ pumpOn' = FALSE
    /\ UNCHANGED <<pend, buffer, decoded>>

\* What one read of the upstream body can deliver in a streaming session.
Ev(c) == <<"d", " ", "{">> \o c \o <<"}", "NL", "NL">>
Chunks ==
    { Ev(<<"x">>),                         \* one event with content
      Ev(<<" ">>),                         \* content that is white space
      Ev(<<>>),                            \* an event without content
      Ev(<<"x">>) \o Ev(<<"L", "C">>),     \* two events in one read
      <<"d", " ", "{", "x">>,              \* the first half of an event
      <<"}", "NL">>,                       \* ... and its second half
      <<"d", " ", "D", "NL">> }            \* the sentinel

UpstreamRead ==
    /\ pumpOn
    /\ reads < MaxReads
    /\ \E value \in Chunks : PumpValue(value)
    /\ reads' = reads + 1
    /\ UNCHANGED <<past, sent, gone, db0, dbOps, other, client, upstream, src, body, pos>>
    /\ UNCHANGED handlerVars

UpstreamEnd ==
    /\ pumpOn
    /\ upstream' = "ended"
    /\ PumpClose
    /\ UNCHANGED <<reads, past, sent, gone, db0, dbOps, other, client, src, body, pos>>
    /\ UNCHANGED handlerVars

UpstreamFail ==
    /\ pumpOn
    /\ upstream' = "failed"
    /\ PumpError
    /\ UNCHANGED <<reads, past, sent, gone, db0, dbOps, other, client, src, body, pos>>
    /\ UNCHANGED handlerVars

\* a read of a session whose upstream answers in at most MaxSeqReads reads
SeqUpstreamRead == reads < MaxSeqReads /\ UpstreamRead

-----------------------------------------------------------------------------
\* chat.controller sendMessage: the streaming branch.

\* set headers, send initial data, getReader
SHeadersNoFrame ==
    /\ pc = "sHeaders"
    /\ pc' = "sRead"
    /\ UNCHANGED <<db, req, doc, relay, result, consumed, termin, acc, ends,
                   status, save, reads, past, sent, gone, db0, dbOps, other, client, upstream, src, body, pos, frames>>
    /\ UNCHANGED streamVars

SHeaders ==
    /\ pc = "sHeaders"
    /\ frames' = Write(frames, ConversationFrame(result.conversationId, result.model))
    /\ pc' = "sRead"
    /\ UNCHANGED <<db, req, doc, relay, result, consumed, termin, acc, ends,
                   status, save, reads, past, sent, gone, db0, dbOps, other, client, upstream, src, body, pos>>
    /\ UNCHANGED streamVars

\* if (aiResponseContent.trim())
ShouldSave(a) == Trim(a) # <<>>

\* One turn of the read loop, from `await reader.read()` to the next await:
\* a chunk is forwarded; done and a rejection leave the loop.
SReadEndsInLoop ==
    /\ pc = "sRead"
    /\ IF queue # <<>>
       THEN LET value == Head(queue) IN
            /\ queue' = Tail(queue)
            /\ consumed' = Append(consumed, value)
            /\ IF value.content # <<>>
               THEN /\ acc' = acc \o value.content
                    /\ frames' = Write(frames, ContentFrame(value.content))
               ELSE UNCHANGED <<acc, frames>>
            /\ UNCHANGED <<pc, termin, ends>>
       ELSE /\ sstate \in {"closing", "errored"}
            /\ termin' = IF sstate = "closing" THEN "done" ELSE "error"
            /\ ends' = ends + 1
            /\ pc' = IF ShouldSave(acc) THEN "sSave"
                     ELSE IF sstate = "closing" THEN "sEnd" ELSE "sErrFrame"
            /\ UNCHANGED <<queue, consumed, acc, frames>>
    /\ UNCHANGED <<db, req, doc, relay, result, status, save, reads,
                   past, sent, gone, db0, dbOps, other, client, upstream, src, body, pos,
                   pend, buffer, sstate, pumpOn, decoded>>

SRead ==
    /\ pc = "sRead"
    /\ IF queue # <<>>
       THEN LET value == Head(queue) IN
            /\ queue' = Tail(queue)
            /\ consumed' = Append(consumed, value)
            /\ IF value.content # <<>>
               THEN /\ acc' = acc \o value.content
                    /\ frames' = Write(frames, ContentFrame(value.content))
               ELSE UNCHANGED <<acc, frames>>
            /\ UNCHANGED <<pc, termin>>
       ELSE /\ sstate \in {"closing", "errored"}
            /\ termin' = IF sstate = "closing" THEN "done" ELSE "error"
            /\ pc' = IF ShouldSave(acc) THEN "sSave"
                     ELSE IF sstate = "closing" THEN "sEnd" ELSE "sErrFrame"
            /\ UNCHANGED <<queue, consumed, acc, frames>>
    /\ UNCHANGED <<db, req, doc, relay, result, ends, status, save, reads,
                   past, sent, gone, db0, dbOps, other, client, upstream, src, body, pos, pend, buffer, sstate, pumpOn, decoded>>

\* ChatService.addMessageToConversation(userId, id, 'assistant', content)
AddMessageToConversation(dbv, userId, id, role, content, up) ==
    IF ~isValidConversationId(id) \/ ~Found(dbv, id, userId)
    THEN [ok |-> FALSE, error |-> "ConversationNotFound", db |-> dbv, doc |-> NullDoc]
    ELSE SaveDoc(dbv, AddMessage(Load(dbv[id]), role, content), up)

\* the save of the AI response, after done and after a stream error; a
\* failure is logged and nothing else
AfterSaveRethrow(ok) ==
    IF termin = "done" /\ ok THEN "sEnd" ELSE "sErrFrame"
AfterSave(ok) ==
    IF termin = "done" THEN "sEnd" ELSE "sErrFrame"

SSaveWhileReading ==
    /\ pc = "sRead"
    /\ dbOps' = dbOps + (IF Found(db, result.conversationId, req.userId) THEN 2 ELSE 1)
    /\ ShouldSave(acc)
    /\ save = "none"
    /\ \E up \in BOOLEAN :
          LET r == AddMessageToConversation(db, req.userId, result.conversationId,
                                            "assistant", acc, up) IN
          /\ db' = r.db
          /\ save' = IF r.ok THEN "ok" ELSE "failed"
          /\ pc' = pc
    /\ UNCHANGED <<req, doc, relay, result, consumed, termin, acc, frames, ends,
                   status, reads, past, sent, gone, db0, other, client, upstream, src, body, pos>>
    /\ UNCHANGED streamVars

SSave ==
    /\ pc = "sSave"
    /\ dbOps' = dbOps + (IF Found(db, result.conversationId, req.userId) THEN 2 ELSE 1)
    /\ \E up \in BOOLEAN :
          LET r == AddMessageToConversation(db, req.userId, result.conversationId,
                                            "assistant", acc, up) IN
          /\ db' = r.db
          /\ save' = IF r.ok THEN "ok" ELSE "failed"
          /\ pc' = AfterSave(r.ok)
    /\ UNCHANGED <<req, doc, relay, result, consumed, termin, acc, frames, ends,
                   status, reads, past, sent, gone, db0, other, client, upstream, src, body, pos>>
    /\ UNCHANGED streamVars

\* catch (streamError): send error to client
SErrFrameRethrow ==
    /\ pc = "sErrFrame"
    /\ frames' = Write(frames, ErrorFrame("Stream processing failed"))
    /\ pc' = "sServiceError"
    /\ UNCHANGED <<db, req, doc, relay, result, consumed, termin, acc, ends,
                   status, save, reads, past, sent, gone, db0, dbOps, other, client, upstream, src, body, pos>>
    /\ UNCHANGED streamVars

SErrFrame ==
    /\ pc = "sErrFrame"
    /\ frames' = Write(frames, ErrorFrame("Stream processing failed"))
    /\ pc' = "sEnd"
    /\ UNCHANGED <<db, req, doc, relay, result, consumed, termin, acc, ends,
                   status, save, reads, past, sent, gone, db0, dbOps, other, client, upstream, src, body, pos>>
    /\ UNCHANGED streamVars

\* catch (serviceError): headers and the error frame
SServiceErrorSilent ==
    /\ pc = "sServiceError"
    /\ pc' = "sEnd"
    /\ UNCHANGED <<db, req, doc, relay, result, consumed, termin, acc, ends,
                   status, save, reads, past, sent, gone, db0, dbOps, other, client, upstream, src, body, pos, frames>>
    /\ UNCHANGED streamVars

SServiceError ==
    /\ pc = "sServiceError"
    /\ frames' = Write(frames, ErrorFrame("Service error"))
    /\ pc' = "sEnd"
    /\ UNCHANGED <<db, req, doc, relay, result, consumed, termin, acc, ends,
                   status, save, reads, past, sent, gone, db0, dbOps, other, client, upstream, src, body, pos>>
    /\ UNCHANGED streamVars

\* res.end(), in finally and at the end of catch (serviceError)
SEndMissing ==
    /\ pc = "sEnd"
    /\ pc' = "done"
    /\ UNCHANGED <<db, req, doc, relay, result, consumed, termin, acc, frames,
                   status, save, reads, past, sent, gone, db0, dbOps, other, client, upstream, src, body, pos, ends>>
    /\ UNCHANGED streamVars

SEnd ==
    /\ pc = "sEnd"
    /\ ends' = ends + 1
    /\ pc' = "done"
    /\ UNCHANGED <<db, req, doc, relay, result, consumed, termin, acc, frames,
                   status, save, reads, past, sent, gone, db0, dbOps, other, client, upstream, src, body, pos>>
    /\ UNCHANGED streamVars

-----------------------------------------------------------------------------
\* ChatService.sendMessage and the regular branch of the controller.

\* get or create conversation
NResolve ==
    /\ pc = "nResolve"
    /\ dbOps' = dbOps + (IF Given(req.conversationId) THEN 1 ELSE 0)
    /\ IF Given(req.conversationId)
       THEN IF Found(db, req.conversationId, req.userId)
            THEN /\ doc' = Load(db[req.conversationId])
                 /\ pc' = "nAddUser"
                 /\ result' = result
            ELSE /\ doc' = doc
                 /\ pc' = "errorHandler"
                 /\ result' = [result EXCEPT !.error = "ConversationNotFound"]
       ELSE /\ doc' = NewDoc(req.userId, GeneratedId, RequestedModel(req))
            /\ pc' = "nCreate"
            /\ result' = result
    /\ UNCHANGED <<db, req, relay, consumed, termin, acc, frames, ends, status,
                   save, reads, past, sent, gone, db0, other, client, upstream, src, body, pos>>
    /\ UNCHANGED streamVars

NCreate ==
    /\ pc = "nCreate"
    /\ dbOps' = dbOps + 1
    /\ \E up \in BOOLEAN :
          LET r == SaveDoc(db, doc, up) IN
          /\ db' = r.db
          /\ doc' = r.doc
          /\ IF r.ok THEN pc' = "nAddUser" /\ result' = result
             ELSE pc' = "errorHandler" /\ result' = [result EXCEPT !.error = r.error]
    /\ UNCHANGED <<req, relay, consumed, termin, acc, frames, ends, status,
                   save, reads, past, sent, gone, db0, other, client, upstream, src, body, pos>>
    /\ UNCHANGED streamVars

\* add user message, save the conversation with the user message
NAddUser ==
    /\ pc = "nAddUser"
    /\ dbOps' = dbOps + 1
    /\ \E up \in BOOLEAN :
          LET r == SaveDoc(db, AddMessage(doc, "user", req.message), up) IN
          /\ db' = r.db
          /\ doc' = r.doc
          /\ IF r.ok THEN pc' = "nRelay" /\ result' = result
             ELSE pc' = "errorHandler" /\ result' = [result EXCEPT !.error = r.error]
    /\ UNCHANGED <<req, relay, consumed, termin, acc, frames, ends, status,
                   save, reads, past, sent, gone, db0, other, client, upstream, src, body, pos>>
    /\ UNCHANGED streamVars

\* AIService.sendMessage followed by extractContent: "ok" carries a content
\* and a usage, "oknousage" a content only, "empty" is a 2xx response without
\* choices or content, the others are the failures of the axios call.
SendOutcomes ==
    {"ok", "oknousage", "empty", "nokey", "network", "timeout", "http401",
     "http429", "http500", "http503"}

\* AIService.extractUsage
extractUsage(o) == IF o = "ok" THEN "present" ELSE "absent"

Replies == {<<"x">>, <<"x", " ">>, <<" ">>}

\* the Error thrown by the catch of AIService.sendMessage, and by
\* extractContent for a response without content
SendError(o) ==
    IF o = "http401" THEN "InvalidApiKey"
    ELSE IF o = "http429" THEN "RateLimit"
    ELSE IF o = "http500" THEN "Unavailable"
    ELSE IF o = "timeout" THEN "Timeout"
    ELSE IF o = "empty" THEN "NoContent"
    ELSE "Failed"

NRelay ==
    /\ pc = "nRelay"
    /\ \E o \in SendOutcomes :
          /\ relay' = o
          /\ sent' = Issue(sent, o, doc, FALSE)
          /\ IF o \in {"ok", "oknousage"}
             THEN /\ \E content \in Replies :
                        /\ acc' = content
                        /\ result' = [result EXCEPT !.message = content,
                                                    !.usage = extractUsage(o)]
                  /\ pc' = "nSave"
             ELSE /\ acc' = acc
                  /\ result' = [result EXCEPT !.error = SendError(o)]
                  /\ pc' = "errorHandler"
    /\ UNCHANGED <<db, req, doc, consumed, termin, frames, ends, status, save,
                   reads, past, gone, db0, dbOps, other, client, upstream, src, body, pos>>
    /\ UNCHANGED streamVars

\* add AI message to conversation and save
NSaveSwallow ==
    /\ pc = "nSave"
    /\ dbOps' = dbOps + 1
    /\ \E up \in BOOLEAN :
          LET r == SaveDoc(db, AddMessage(doc, "assistant", acc), up) IN
          /\ db' = r.db
          /\ doc' = r.doc
          /\ save' = IF r.ok THEN "ok" ELSE "failed"
          /\ pc' = "nRespond"
          /\ result' = [result EXCEPT !.conversationId = doc.customId,
                                      !.model = doc.model]
    /\ UNCHANGED <<req, relay, consumed, termin, acc, frames, ends, status,
                   reads, past, sent, gone, db0, other, client, upstream, src, body, pos>>
    /\ UNCHANGED streamVars

NSave ==
    /\ pc = "nSave"
    /\ dbOps' = dbOps + 1
    /\ \E up \in BOOLEAN :
          LET r == SaveDoc(db, AddMessage(doc, "assistant", acc), up) IN
          /\ db' = r.db
          /\ doc' = r.doc
          /\ save' = IF r.ok THEN "ok" ELSE "failed"
          /\ IF r.ok
             THEN /\ pc' = "nRespond"
                  /\ result' = [result EXCEPT !.conversationId = doc.customId,
                                              !.model = doc.model]
             ELSE /\ pc' = "errorHandler"
                  /\ result' = [result EXCEPT !.error = r.error]
    /\ UNCHANGED <<req, relay, consumed, termin, acc, frames, ends, status,
                   reads, past, sent, gone, db0, other, client, upstream, src, body, pos>>
    /\ UNCHANGED streamVars

\* res.status(200).json(response)
NRespond ==
    /\ pc = "nRespond"
    /\ status' = 200
    /\ ends' = ends + 1
    /\ pc' = "done"
    /\ UNCHANGED <<db, req, doc, relay, result, consumed, termin, acc, frames,
                   save, reads, past, sent, gone, db0, dbOps, other, client, upstream, src, body, pos>>
    /\ UNCHANGED streamVars

-----------------------------------------------------------------------------
\* getConversation, deleteConversation, renameConversation, clearConversation:
\* the controllers and the ChatService methods they call.

\* the controller's id validation
ReceiveOp(r) ==
    /\ pc = "idle"
    /\ req' = r
    /\ IF ~isValidConversationId(r.conversationId)
       THEN /\ result' = [result EXCEPT !.error = "AppError400"]
            /\ pc' = "errorHandler"
       ELSE /\ result' = result
            /\ pc' = "oResolve"
    /\ UNCHANGED <<db, doc, relay, consumed, termin, acc, frames, ends, status,
                   save, reads, past, sent, gone, db0, dbOps, other, client, upstream, src, body, pos>>
    /\ UNCHANGED streamVars

\* Conversation.findByCustomIdAndUser; `if (!conversation) throw new Error`
OResolve ==
    /\ pc = "oResolve"
    /\ dbOps' = dbOps + 1
    /\ IF Found(db, req.conversationId, req.userId)
       THEN /\ doc' = Load(db[req.conversationId])
            /\ result' = result
            /\ pc' = IF req.op = "get" THEN "oRespond" ELSE "oApply"
       ELSE /\ doc' = doc
            /\ result' = [result EXCEPT !.error = "ConversationNotFound"]
            /\ pc' = "errorHandler"
    /\ UNCHANGED <<db, req, relay, consumed, termin, acc, frames, ends, status,
                   save, reads, past, sent, gone, db0, other, client, upstream, src, body, pos>>
    /\ UNCHANGED streamVars

\* what the method does to the conversation it found
Apply(dbv, d, r, up) ==
    IF r.op = "delete" THEN DeleteDoc(dbv, d, up)
    ELSE IF r.op = "rename"
    THEN SaveField(dbv, [d EXCEPT !.title = Trim(r.title)], "title", up)
    ELSE SaveField(dbv, [d EXCEPT !.messages = <<>>], "messages", up)

OApply ==
    /\ pc = "oApply"
    /\ dbOps' = dbOps + 1
    /\ \E up \in BOOLEAN :
          LET r == Apply(db, doc, req, up) IN
          /\ db' = r.db
          /\ doc' = r.doc
          /\ IF r.ok THEN pc' = "oRespond" /\ result' = result
             ELSE pc' = "errorHandler" /\ result' = [result EXCEPT !.error = r.error]
    /\ UNCHANGED <<req, relay, consumed, termin, acc, frames, ends, status,
                   save, reads, past, sent, gone, db0, other, client, upstream, src, body, pos>>
    /\ UNCHANGED streamVars

\* res.status(200).json(response)
ORespond ==
    /\ pc = "oRespond"
    /\ status' = 200
    /\ ends' = ends + 1
    /\ pc' = "done"
    /\ UNCHANGED <<db, req, doc, relay, result, consumed, termin, acc, frames,
                   save, reads, past, sent, gone, db0, dbOps, other, client, upstream, src, body, pos>>
    /\ UNCHANGED streamVars

-----------------------------------------------------------------------------
\* One request against the server.

\* the steps of the request handler
Steps ==
    \/ ErrorHandler
    \/ SResolve
    \/ SCreate
    \/ SAddUser
    \/ SRelay
    \/ SHeaders
    \/ SRead
    \/ SSave
    \/ SErrFrame
    \/ SServiceError
    \/ SEnd
    \/ NResolve
    \/ NCreate
    \/ NAddUser
    \/ NRelay
    \/ NSave
    \/ NRespond
    \/ OResolve
    \/ OApply
    \/ ORespond

Handler ==
    \/ \E r \in Requests : Receive(r)
    \/ \E r \in OpRequests : ReceiveOp(r)
    \/ Steps

\* the upstream body settles its last read: it ends or fails
UpstreamSettles == UpstreamEnd \/ UpstreamFail

Next ==
    \/ Handler
    \/ UpstreamRead
    \/ UpstreamSettles

Spec == Init /\ [][Next]_vars

-----------------------------------------------------------------------------
\* Sends to a conversation that is close to the limit of its message list,
\* while a second send of the same user to the same conversation may be in
\* progress; the second send is followed from its lookup to the save of its
\* user message.

\* a conversation after n messages of alternating roles
History(n) ==
    [i \in 1..n |-> IF i % 2 = 1 THEN [role |-> "user", content |-> <<"q">>]
                    ELSE [role |-> "assistant", content |-> <<"r">>]]

LimitDbs ==
    {   ("c1" :> [customId |-> "c1", userId |-> "u1", title |-> DefaultTitle,
                  model |-> DefaultModel, messages |-> History(n)])
     @@ ("c2" :> [customId |-> "c2", userId |-> "u2", title |-> DefaultTitle,
                  model |-> DefaultModel, messages |-> OldMessages])
     : n \in (MaxMessages - 2)..MaxMessages }

LimitRequests ==
    [op : {"send"}, userId : {"u1"}, message : {<<"h">>},
     conversationId : {"c1", "absent"}, model : {"absent"}, stream : BOOLEAN,
     title : {<<>>}]

LimitOps == {r \in OpRequests : r.conversationId = "c1"}

LimitInit ==
    /\ db \in LimitDbs
    /\ pc = "idle"
    /\ req = NoRequest
    /\ doc = NullDoc
    /\ relay = "none"
    /\ result = NoResult
    /\ consumed = <<>>
    /\ termin = "none"
    /\ acc = <<>>
    /\ frames = <<>>
    /\ ends = 0
    /\ status = 0
    /\ save = "none"
    /\ past = <<>>
    /\ sent = <<>>
    /\ gone = FALSE
    /\ db0 = db
    /\ dbOps = 0
    /\ other = NoOther
    /\ upstream = "open"
    /\ client = NoClient
    /\ StreamInit
    /\ reads = 0
    /\ src = <<>>
    /\ body = <<>>
    /\ pos = 0

\* the second send: get or create conversation (the lookup)
OtherLoad ==
    /\ other.pc = "idle"
    /\ Found(db, "c1", "u1")
    /\ other' = [pc |-> "loaded", doc |-> Load(db["c1"])]
    /\ UNCHANGED <<reads, past, sent, gone, db0, dbOps, client, upstream, src, body, pos>>
    /\ UNCHANGED handlerVars
    /\ UNCHANGED streamVars

\* the second send: add user message, save the conversation
OtherSave ==
    /\ other.pc = "loaded"
    /\ \E up \in BOOLEAN :
          LET r == SaveDoc(db, AddMessage(other.doc, "user", <<"o">>), up) IN
          /\ db' = r.db
          /\ other' = [pc |-> "saved", doc |-> r.doc]
    /\ UNCHANGED <<pc, req, doc, relay, result, consumed, termin, acc, frames,
                   ends, status, save>>
    /\ UNCHANGED <<reads, past, sent, gone, db0, dbOps, client, upstream, src, body, pos>>
    /\ UNCHANGED streamVars

\* the second send: the save of its AI response when its stream is over
OtherAssistant ==
    /\ other.pc = "saved"
    /\ other.doc.saved = Len(other.doc.messages)
    /\ \E up \in BOOLEAN :
          LET r == AddMessageToConversation(db, "u1", "c1", "assistant", <<"p">>, up) IN
          /\ db' = r.db
          /\ other' = [other EXCEPT !.pc = IF r.ok THEN "finished" ELSE "failed"]
    /\ UNCHANGED <<pc, req, doc, relay, result, consumed, termin, acc, frames,
                   ends, status, save>>
    /\ UNCHANGED <<reads, past, sent, gone, db0, dbOps, client, upstream, src, body, pos>>
    /\ UNCHANGED streamVars

LimitNext ==
    \/ \E r \in LimitRequests : Receive(r)
    \/ \E r \in LimitOps : ReceiveOp(r)
    \/ Steps
    \/ SeqUpstreamRead
    \/ UpstreamSettles
    \/ OtherLoad
    \/ OtherSave

LimitSpec == LimitInit /\ [][LimitNext]_vars

\* Two sends in flight at the same time, from the lookup of the conversation
\* to the save of the AI response.
RaceNext ==
    \/ Handler
    \/ SeqUpstreamRead
    \/ UpstreamSettles
    \/ OtherLoad
    \/ OtherSave
    \/ OtherAssistant

RaceSpec == Init /\ [][RaceNext]_vars

-----------------------------------------------------------------------------
\* Sends to a conversation whose stored messages have any of the roles the
\* schema admits (user, assistant, system), in any order.

AnyMessages ==
    { [role |-> "user", content |-> <<"q">>],
      [role |-> "assistant", content |-> <<"r">>],
      [role |-> "system", content |-> <<"s">>] }

PrepDbs ==
    {   ("c1" :> [customId |-> "c1", userId |-> "u1", title |-> DefaultTitle,
                  model |-> DefaultModel, messages |-> m])
     @@ ("c2" :> [customId |-> "c2", userId |-> "u2", title |-> DefaultTitle,
                  model |-> DefaultModel, messages |-> OldMessages])
     : m \in UNION { [1..n -> AnyMessages] : n \in 0..MaxHistory } }

PrepInit ==
    /\ db \in PrepDbs
    /\ pc = "idle"
    /\ req = NoRequest
    /\ doc = NullDoc
    /\ relay = "none"
    /\ result = NoResult
    /\ consumed = <<>>
    /\ termin = "none"
    /\ acc = <<>>
    /\ frames = <<>>
    /\ ends = 0
    /\ status = 0
    /\ save = "none"
    /\ past = <<>>
    /\ sent = <<>>
    /\ gone = FALSE
    /\ db0 = db
    /\ dbOps = 0
    /\ other = NoOther
    /\ upstream = "open"
    /\ client = NoClient
    /\ StreamInit
    /\ reads = 0
    /\ src = <<>>
    /\ body = <<>>
    /\ pos = 0

PrepNext ==
    \/ \E r \in LimitRequests : Receive(r)
    \/ \E r \in LimitOps : ReceiveOp(r)
    \/ Steps
    \/ SeqUpstreamRead
    \/ UpstreamSettles

PrepSpec == PrepInit /\ [][PrepNext]_vars

-----------------------------------------------------------------------------
\* A streaming session whose client may close the connection while the
\* events are being forwarded.  The controller registers no listener for it
\* and res.write on a closed connection does not throw: nothing else changes.

ClientDisconnect ==
    /\ req.stream
    /\ pc = "sRead"
    /\ ~gone
    /\ gone' = TRUE
    /\ UNCHANGED <<reads, past, sent, db0, dbOps, other, client, upstream, src, body, pos>>
    /\ UNCHANGED handlerVars
    /\ UNCHANGED streamVars

CancelNext ==
    \/ Next
    \/ ClientDisconnect

CancelSpec == Init /\ [][CancelNext]_vars

-----------------------------------------------------------------------------
\* Requests answered one after the other by the same server: the collection
\* stays, everything else belongs to one request.

\* sends naming a conversation that does not exist at first
SeqRequests ==
    [op : {"send"}, userId : {"u1"}, message : {<<"h">>, <<"k">>},
     conversationId : {"c3"}, model : {"absent"}, stream : BOOLEAN,
     title : {<<>>}]
    \cup
    [op : {"send"}, userId : {"u1"}, message : {<<"h">>},
     conversationId : {"absent"}, model : {"absent"}, stream : {FALSE},
     title : {<<>>}]

SeqOps == {r \in OpRequests : r.conversationId = "c1" /\ r.op \in {"get", "delete"}}

\* what is remembered of an answered request
Answered ==
    [req |-> req, status |-> status, relay |-> relay, save |-> save,
     error |-> result.error]

\* the response has ended; the next request finds the handler as it was
Again ==
    /\ pc = "done"
    /\ upstream' = "open"
    /\ Len(past) + 1 < MaxRequests
    /\ past' = Append(past, Answered)
    /\ db' = db
    /\ db0' = db
    /\ pc' = "idle"
    /\ req' = NoRequest
    /\ doc' = NullDoc
    /\ relay' = "none"
    /\ result' = NoResult
    /\ consumed' = <<>>
    /\ termin' = "none"
    /\ acc' = <<>>
    /\ frames' = <<>>
    /\ ends' = 0
    /\ status' = 0
    /\ save' = "none"
    /\ sent' = <<>>
    /\ gone' = FALSE
    /\ dbOps' = 0
    /\ pend' = <<>>
    /\ buffer' = <<>>
    /\ queue' = <<>>
    /\ sstate' = "none"
    /\ pumpOn' = FALSE
    /\ decoded' = <<>>
    /\ reads' = 0
    /\ UNCHANGED <<other, client, src, body, pos>>

SeqNext ==
    \/ \E r \in SeqRequests : Receive(r)
    \/ \E r \in SeqOps : ReceiveOp(r)
    \/ Steps
    \/ SeqUpstreamRead
    \/ UpstreamSettles
    \/ Again

SeqSpec == Init /\ [][SeqNext]_vars

-----------------------------------------------------------------------------
\* A send with a cleanup request of the same user running at the same time.

\* ChatService.deleteEmptyConversations: Conversation.deleteMany of the
\* user's conversations that have no first message
Emptied(dbv, userId) ==
    [id \in {i \in DOMAIN dbv : ~(dbv[i].userId = userId /\ dbv[i].messages = <<>>)}
        |-> dbv[id]]

Cleanup ==
    /\ other.pc = "idle"
    /\ pc \notin {"idle", "done"}
    /\ db' = Emptied(db, req.userId)
    /\ other' = [other EXCEPT !.pc = "cleaned"]
    /\ UNCHANGED <<pc, req, doc, relay, result, consumed, termin, acc, frames,
                   ends, status, save>>
    /\ UNCHANGED <<reads, past, sent, gone, db0, dbOps, client, upstream, src, body, pos>>
    /\ UNCHANGED streamVars

CleanNext ==
    \/ Handler
    \/ SeqUpstreamRead
    \/ UpstreamSettles
    \/ Cleanup

CleanSpec == Init /\ [][CleanNext]_vars

-----------------------------------------------------------------------------
\* The decoder on its own: parseStreamResponse is given an upstream body made
\* of up to MaxLines lines, delivered in reads of any sizes.

\* kind: "event" a JSON object, "malformed" a payload JSON.parse rejects,
\* "value" a JSON value that is no object, "done" the sentinel, "other" a line
\* without the marker.
LineKinds ==
    { [bytes |-> <<"d", " ", "{", "x", "}">>, kind |-> "event", content |-> <<"x">>],
      [bytes |-> <<"d", " ", "{", "L", "C", "}">>, kind |-> "event", content |-> <<"e2">>],
      [bytes |-> <<" ", "d", " ", "{", "}", " ">>, kind |-> "event", content |-> <<>>],
      [bytes |-> <<"d", " ", "{", "x">>, kind |-> "malformed", content |-> <<>>],
      [bytes |-> <<"d", " ", "7">>, kind |-> "value", content |-> <<>>],
      [bytes |-> <<"d", " ", "D">>, kind |-> "done", content |-> <<>>],
      [bytes |-> <<"x">>, kind |-> "other", content |-> <<>>],
      [bytes |-> <<>>, kind |-> "other", content |-> <<>>] }

LineSeqs == UNION { [1..n -> LineKinds] : n \in 1..MaxLines }

RECURSIVE JoinLines(_)
JoinLines(ls) ==
    IF ls = <<>> THEN <<>>
    ELSE Head(ls).bytes \o <<"NL">> \o JoinLines(Tail(ls))

DecInit ==
    /\ src \in LineSeqs
    /\ \E terminated \in BOOLEAN :
          body = IF terminated THEN JoinLines(src)
                 ELSE SubSeq(JoinLines(src), 1, Len(JoinLines(src)) - 1)
    /\ pos = 0
    /\ reads = 0
    /\ HandlerInit
    /\ pend = <<>>
    /\ buffer = <<>>
    /\ queue = <<>>
    /\ decoded = <<>>
    /\ sstate = "readable"
    /\ pumpOn = TRUE

\* the next n bytes of the body arrive in one read
DecFeed(n) ==
    /\ pumpOn
    /\ pos + n <= Len(body)
    /\ PumpValue(SubSeq(body, pos + 1, pos + n))
    /\ pos' = pos + n
    /\ UNCHANGED <<reads, past, sent, gone, db0, dbOps, other, client, upstream, src, body>>
    /\ UNCHANGED handlerVars

\* the body is exhausted: the read returns done
DecEnd ==
    /\ pumpOn
    /\ upstream' = "ended"
    /\ pos = Len(body)
    /\ PumpClose
    /\ UNCHANGED <<reads, past, sent, gone, db0, dbOps, other, client, src, body, pos>>
    /\ UNCHANGED handlerVars

DecNext ==
    \/ \E n \in 1..(MaxLines * 7) : DecFeed(n)
    \/ DecEnd

DecSpec == DecInit /\ [][DecNext]_vars

\* what the decoder yields when the whole body arrives in a single read
OneRead(b) == PumpRead(<<>>, <<>>, b)

\* the decoder has nothing more to deliver
DecFinished == ~pumpOn \/ pos = Len(body)

-----------------------------------------------------------------------------
\* The browser's side of a streaming response: apiService.sendMessageStream
\* is given the bytes of the frames the server wrote, split into reads.

\* res.write(string) sends the string as UTF-8
RECURSIVE Utf8Encode(_)
Utf8Encode(s) ==
    IF s = <<>> THEN <<>>
    ELSE (IF Head(s) = "e2" THEN <<"L", "C">> ELSE <<Head(s)>>) \o Utf8Encode(Tail(s))

\* `data: ${JSON.stringify(frame)}\n\n`; the JSON text is written as a brace,
\* a letter for the frame's type ("v", "c", "e"), the content, a brace
FrameTag(f) ==
    IF f.type = "conversation" THEN "v" ELSE IF f.type = "content" THEN "c" ELSE "e"

WireFrame(f) ==
    <<"d", " ", "{", FrameTag(f)>> \o Utf8Encode(f.content) \o <<"}", "NL", "NL">>

RECURSIVE Wire(_)
Wire(fr) == IF fr = <<>> THEN <<>> ELSE WireFrame(Head(fr)) \o Wire(Tail(fr))

\* decoder.decode(value): no stream flag, an unfinished character at the end
\* of the value comes out as U+FFFD
ClientDecode(value) ==
    LET r == Utf8Decode(<<>>, value, <<>>) IN
    IF r.pend = <<>> THEN r.text ELSE Append(r.text, "?")

\* JSON.parse(data) and the type and content of the parsed frame
ClientJson(data) ==
    IF /\ Len(data) >= 3
       /\ data[1] = "{"
       /\ data[2] \in {"v", "c", "e"}
       /\ data[Len(data)] = "}"
       /\ \A i \in 3..(Len(data) - 1) : data[i] \in ContentChars
    THEN [ok |-> TRUE,
          type |-> IF data[2] = "v" THEN "conversation"
                   ELSE IF data[2] = "c" THEN "content" ELSE "error",
          content |-> SubSeq(data, 3, Len(data) - 1)]
    ELSE [ok |-> FALSE, type |-> "none", content |-> <<>>]

\* one turn of `for (const line of lines)`: the callbacks made for the line
ClientLine(c, line) ==
    IF ~StartsWith(line, Marker) THEN c
    ELSE LET data   == Slice(line, 2)
             parsed == ClientJson(data)
         IN IF data = Sentinel
            THEN [c EXCEPT !.completes = Append(@, "none"), !.returned = TRUE]
            ELSE IF ~parsed.ok THEN c
            ELSE IF parsed.type = "conversation"
                 THEN [c EXCEPT !.completes = Append(@, "id")]
            ELSE IF parsed.type = "content"
                 THEN [c EXCEPT !.chunks = Append(@, parsed.content)]
            ELSE [c EXCEPT !.errors = Append(@, "error"), !.returned = TRUE]

\* the line loop; `return` leaves it
RECURSIVE ClientLines(_, _)
ClientLines(c, lines) ==
    IF lines = <<>> \/ c.returned THEN c
    ELSE ClientLines(ClientLine(c, Head(lines)), Tail(lines))

\* what the while loop does with the value of one read
ClientRead(c, value) == ClientLines(c, SplitLines(ClientDecode(value), <<>>, <<>>))

\* Responses of a streaming send: the conversation frame, content frames and,
\* when the stream failed, an error frame
ClientContents == {<<"x">>, <<"e2">>, <<"x", " ">>}

Responses ==
    { <<ConversationFrame("c1", DefaultModel)>> \o cs \o tail :
        cs \in UNION { [1..n -> {ContentFrame(c) : c \in ClientContents}] : n \in 0..MaxFrames },
        tail \in {<<>>, <<ErrorFrame("Stream processing failed")>>} }

ClientInit ==
    /\ src \in Responses
    /\ body = Wire(src)
    /\ pos = 0
    /\ reads = 0
    /\ HandlerInit
    /\ StreamInit

\* const { done, value } = await reader.read(): the next n bytes arrive
ClientFeed(n) ==
    /\ ~client.returned
    /\ pos + n <= Len(body)
    /\ client' = ClientRead(client, SubSeq(body, pos + 1, pos + n))
    /\ pos' = pos + n
    /\ UNCHANGED <<reads, past, sent, gone, db0, dbOps, other, upstream, src, body>>
    /\ UNCHANGED handlerVars
    /\ UNCHANGED streamVars

\* if (done) break
ClientEnd ==
    /\ ~client.returned
    /\ pos = Len(body)
    /\ client' = [client EXCEPT !.returned = TRUE]
    /\ UNCHANGED <<reads, past, sent, gone, db0, dbOps, other, upstream, src, body, pos>>
    /\ UNCHANGED handlerVars
    /\ UNCHANGED streamVars

ClientNext ==
    \/ \E n \in 1..Len(body) : ClientFeed(n)
    \/ ClientEnd

ClientSpec == ClientInit /\ [][ClientNext]_vars

-----------------------------------------------------------------------------
\* Vocabulary of the properties.

Last(s) == s[Len(s)]

\* the text of the content deltas among a sequence of chunks, in order
RECURSIVE Deltas(_)
Deltas(chunks) ==
    IF chunks = <<>> THEN <<>>
    ELSE IF Head(chunks).content # <<>>
         THEN <<Head(chunks).content>> \o Deltas(Tail(chunks))
         ELSE Deltas(Tail(chunks))

RECURSIVE FramesOfType(_, _)
FramesOfType(fr, t) ==
    IF fr = <<>> THEN <<>>
    ELSE IF Head(fr).type = t THEN <<Head(fr)>> \o FramesOfType(Tail(fr), t)
         ELSE FramesOfType(Tail(fr), t)

RECURSIVE Contents(_)
Contents(fr) ==
    IF fr = <<>> THEN <<>> ELSE <<Head(fr).content>> \o Contents(Tail(fr))

\* the persisted message list of the conversation of this request
Persisted == IF doc.customId \in DOMAIN db THEN db[doc.customId].messages ELSE <<>>

UserMessage == [role |-> "user", content |-> Trim(req.message)]
AssistantMessage(text) == [role |-> "assistant", content |-> text]

\* the conversation's list as it was when the request came in
Before == {<<>>, OldMessages}

Streaming == pc # "idle" /\ req.stream
StreamFailed == Streaming /\ termin = "error" /\ Len(Deltas(consumed)) >= 1
RelayFailed == relay \notin {"none", "ok"}

-----------------------------------------------------------------------------
C2_PreStreamFailure ==
    (req.stream /\ RelayFailed) =>
        /\ frames = IF pc = "sServiceError" THEN <<>> ELSE <<ErrorFrame("Service error")>>
        /\ pc = "done" => ends = 1
        /\ pc # "done" => ends = 0
        /\ decoded = <<>> /\ consumed = <<>>
        /\ save = "none"
        /\ \E old \in Before : Persisted = Append(old, UserMessage)

C2_Witness == pc = "done" /\ req.stream /\ relay = "http429" /\ ends = 1

\* C3: every streaming send eventually ends the response, on every path.
C3_ResponseEnds == Streaming ~> (pc = "done" /\ ends = 1)

C3_Witness == pc = "done" /\ req.stream /\ save = "failed" /\ ends = 1

\* C4: however the upstream bytes are split into reads, the decoder yields the
\* ordered sequence of events it yields when they arrive in a single read.
C4_SplitInvariance ==
    /\ IsPrefix(decoded, OneRead(body).events)
    /\ DecFinished => decoded = OneRead(body).events
    /\ (sstate = "closing" /\ pos < Len(body)) => OneRead(body).closed

C4_Witness ==
    /\ pend = <<"L">>
    /\ buffer # <<>>
    /\ decoded # <<>>

\* C5: malformed data lines among valid ones: the decoder skips exactly the
\* malformed lines and yields every valid event of a complete line, in order,
\* up to the sentinel; a malformed line does not end the sequence, neither
\* normally nor in error.
RECURSIVE ValidEvents(_)
ValidEvents(ls) ==
    IF ls = <<>> THEN <<>>
    ELSE IF Head(ls).kind = "done" THEN <<>>
    ELSE IF Head(ls).kind = "event"
         THEN <<[content |-> Head(ls).content]>> \o ValidEvents(Tail(ls))
         ELSE ValidEvents(Tail(ls))

CompleteLines ==
    IF Len(body) = Len(JoinLines(src)) THEN src ELSE SubSeq(src, 1, Len(src) - 1)

HasSentinel(ls) == \E i \in 1..Len(ls) : ls[i].kind = "done"

C5_MalformedSkipped ==
    /\ sstate # "errored"
    /\ IsPrefix(decoded, ValidEvents(CompleteLines))
    /\ DecFinished => decoded = ValidEvents(CompleteLines)
    /\ (~pumpOn /\ pos < Len(body)) => HasSentinel(CompleteLines)

C5_Witness ==
    /\ DecFinished
    /\ Len(src) = 3
    /\ src[1].kind = "event" /\ src[2].kind = "malformed" /\ src[3].kind = "event"
    /\ Len(decoded) = 2

\* C6: the content frames are written in the order in which the content
\* deltas were decoded, one frame per content-carrying event.
C6_ForwardInOrder ==
    Streaming =>
        /\ Contents(FramesOfType(frames, "content")) = Deltas(consumed)
        /\ IsPrefix(consumed, decoded)

C6_Witness ==
    /\ pc = "done"
    /\ Len(Deltas(consumed)) >= 2
    /\ Deltas(consumed)[1] # Deltas(consumed)[2]
    /\ Len(consumed) > Len(Deltas(consumed))

\* C7: when the relay call succeeded, exactly one conversation frame is
\* written, carrying the conversation id and model, and it is the first
\* frame of the response.
C7_ConversationFrameFirst ==
    (req.stream /\ relay = "ok") =>
        IF pc = "sHeaders" THEN frames = <<>>
        ELSE /\ Len(frames) >= 1
             /\ frames[1] = ConversationFrame(doc.customId, doc.model)
             /\ \A i \in 2..Len(frames) : frames[i].type # "conversation"

C7_Witness ==
    /\ pc = "done" /\ req.stream /\ relay = "ok"
    /\ Len(frames) >= 3
    /\ frames[Len(frames)].type = "error"

\* C8: in both sends the user message is persisted before the relay call is
\* issued: when the call is about to be issued, and after it was issued or
\* failed, the persisted list ends with the user message (followed only by
\* the assistant message of this request once that is saved).
C8_UserMessageFirst ==
    (pc \in {"sRelay", "nRelay"} \/ relay # "none") =>
        \E old \in Before :
            Persisted = Append(old, UserMessage)
                \o (IF save = "ok" THEN <<AssistantMessage(Trim(acc))>> ELSE <<>>)

C8_Witness == pc = "done" /\ ~req.stream /\ relay = "timeout" /\ status = 500

\* C9: in a streaming session the assistant message is appended only after the
\* read loop has seen the end of the event stream (done or error) and before
\* the response is ended.
AssistantTotal(dbv) ==
    Cardinality({p \in UNION {{id} \X (1..Len(dbv[id].messages)) : id \in DOMAIN dbv} :
                    dbv[p[1]].messages[p[2]].role = "assistant"})

C9_AppendAfterStreamBeforeEnd ==
    [][ req.stream =>
          /\ (AssistantTotal(db') # AssistantTotal(db)) => save' # save
          /\ (save' # save) =>
                /\ termin \in {"done", "error"}
                /\ ~pumpOn
                /\ ends = 0 /\ ends' = 0 ]_vars

C9_Witness == pc = "sEnd" /\ req.stream /\ save = "ok" /\ termin = "done" /\ ends = 0

\* C10: a failed final save is swallowed: the frames are those the events and
\* the end of the stream call for, whether the save succeeded or failed, and
\* the response is ended.
ExpectedFrames ==
    <<ConversationFrame(doc.customId, doc.model)>>
    \o [i \in 1..Len(Deltas(consumed)) |-> ContentFrame(Deltas(consumed)[i])]
    \o (IF termin = "error" THEN <<ErrorFrame("Stream processing failed")>> ELSE <<>>)

C10_SaveFailureSwallowed ==
    (req.stream /\ save # "none" /\ pc \in {"sEnd", "done"}) =>
        /\ frames = ExpectedFrames
        /\ pc = "done" => ends = 1

C10_Witness == pc = "done" /\ req.stream /\ save = "failed" /\ termin = "done"

\* C11: a streaming response carries at most one error frame; once it is
\* written no other frame follows it, so it is the last frame before the
\* response ends; frames already written stay as they were, one frame being
\* added at a time.
HasErrorFrame(fr) == \E i \in 1..Len(fr) : fr[i].type = "error"

C11_ErrorFrameLast ==
    [][ /\ IsPrefix(frames, frames')
        /\ Len(frames') <= Len(frames) + 1
        /\ HasErrorFrame(frames) => frames' = frames
        /\ ends >= 1 => frames' = frames ]_vars

C11_Witness ==
    /\ pc = "done" /\ req.stream /\ termin = "error" /\ ends = 1
    /\ Len(FramesOfType(frames, "content")) >= 2
    /\ Len(FramesOfType(frames, "error")) = 1
    /\ Last(frames).type = "error"

\* C12: a streaming send with a valid id that matches no conversation creates
\* the conversation under exactly that id; later sends of the same user with
\* that id append to it and never run into a second creation: the one
\* conversation of that id holds the user messages of all these sends, in the
\* order of the sends.
RECURSIVE UserContents(_)
UserContents(msgs) ==
    IF msgs = <<>> THEN <<>>
    ELSE IF Head(msgs).role = "user"
         THEN <<Head(msgs).content>> \o UserContents(Tail(msgs))
         ELSE UserContents(Tail(msgs))

\* the messages of the sends to id whose user message was saved, oldest first
RECURSIVE PastSends(_, _)
PastSends(done, id) ==
    IF done = <<>> THEN <<>>
    ELSE IF /\ Head(done).req.op = "send"
            /\ Head(done).req.conversationId = id
            /\ Head(done).relay # "none"
         THEN <<Trim(Head(done).req.message)>> \o PastSends(Tail(done), id)
         ELSE PastSends(Tail(done), id)

SendsTo(id) ==
    PastSends(past, id)
    \o (IF /\ req.op = "send" /\ req.conversationId = id
            /\ (pc \in {"sRelay", "nRelay"} \/ relay # "none")
         THEN <<Trim(req.message)>> ELSE <<>>)

\* the streaming send has got its conversation
Resolved == req.stream /\ pc \notin {"idle", "sResolve", "sCreate", "sServiceError", "sEnd", "done"}

C12_AutoCreateThenAppend ==
    /\ req.conversationId = "c3" =>
            /\ DOMAIN db \ DOMAIN db0 \subseteq {"c3"}
            /\ result.error # "MongoError11000"
    /\ (Resolved /\ req.conversationId = "c3") =>
            /\ doc.customId = "c3"
            /\ "c3" \in DOMAIN db
    /\ IF "c3" \in DOMAIN db
       THEN /\ db["c3"].customId = "c3"
            /\ db["c3"].userId = "u1"
            /\ UserContents(db["c3"].messages) = SendsTo("c3")
       ELSE SendsTo("c3") = <<>>

C12_Witness ==
    /\ Len(past) = 1 /\ past[1].req.stream /\ past[1].req.conversationId = "c3"
    /\ past[1].save = "ok"
    /\ pc = "done" /\ req.stream /\ req.conversationId = "c3" /\ save = "ok"
    /\ past[1].req.message # req.message
    /\ Len(db["c3"].messages) = 4
    /\ UserContents(db["c3"].messages) = <<past[1].req.message, req.message>>

\* C13 (as stated): a non-streaming send, get, delete, rename or clear with a
\* valid id that matches no conversation of the caller is answered with the
\* not-found status 404, creates no conversation and changes no stored
\* conversation (this covers the get after a successful delete, where the
\* id matches nothing any more).
Missing ==
    /\ req.op \in {"send", "get", "delete", "rename", "clear"}
    /\ ~req.stream
    /\ Given(req.conversationId)
    /\ isValidConversationId(req.conversationId)
    /\ ~Found(db0, req.conversationId, req.userId)

C13_MissingIs404 ==
    (pc = "done" /\ Missing) => (status = 404 /\ db = db0)

\* C14 (as stated): whatever the operation, an id that does not match the
\* pattern is rejected with status 400 and no store call is made.
Malformed == req.op # "none" /\ req.conversationId # "absent"
             /\ ~isValidConversationId(req.conversationId)

AtLimit(id) == id \in DOMAIN db /\ Len(db[id].messages) = MaxMessages

Appends ==
    \/ pc \in {"sAddUser", "nAddUser", "nSave"} /\ AtLimit(doc.customId)
    \/ pc = "sSave" /\ AtLimit(result.conversationId)

C15_AsStated ==
    [][ /\ \A id \in DOMAIN db' : Len(db'[id].messages) <= MaxMessages
        /\ (Appends /\ pc' # pc) =>
              /\ db' = db
              /\ pc' \in {"errorHandler", "sServiceError", "sErrFrame"} ]_vars

\* C16 (as stated): in a non-streaming send that got as far as the relay
\* call, the assistant message is appended exactly when the relay call and
\* the content extraction succeeded; then the conversation has gained the
\* user message and one assistant message with the returned content, and the
\* response carries message, conversationId, model and usage; otherwise the
\* error is propagated and the conversation has gained the user message only.
Regular == req.op = "send" /\ ~req.stream
Base == IF doc.customId \in DOMAIN db0 THEN db0[doc.customId].messages ELSE <<>>
Extracted == relay \in {"ok", "oknousage"}

C16_AsStated ==
    (pc = "done" /\ Regular /\ relay # "none") =>
        IF Extracted
        THEN /\ Persisted = Base \o <<UserMessage, AssistantMessage(acc)>>
             /\ status = 200
             /\ result.message = acc
             /\ result.conversationId = doc.customId
             /\ result.model = doc.model
             /\ result.usage = "present"
        ELSE /\ Persisted = Base \o <<UserMessage>>
             /\ status >= 400

\* C16 (amended): the assistant message is appended exactly when the relay
\* call, the content extraction and the save of the assistant message all
\* succeed; the save is attempted whenever call and extraction succeeded.
\* Then the conversation has gained the user message and one assistant
\* message with the returned content trimmed of white space at both ends, and
\* the response (200) carries the returned content as message,
\* conversationId, model, and usage exactly when the upstream response had
\* one.  Otherwise the error is propagated and the conversation has gained
\* the user message only.
C16_AssistantIffSaved ==
    (pc = "done" /\ Regular /\ relay # "none") =>
        /\ (save # "none") <=> Extracted
        /\ IF save = "ok"
           THEN /\ Persisted = Base \o <<UserMessage, AssistantMessage(Trim(acc))>>
                /\ status = 200
                /\ result = [message |-> acc, conversationId |-> doc.customId,
                             model |-> doc.model, error |-> "none",
                             usage |-> IF relay = "ok" THEN "present" ELSE "absent"]
           ELSE /\ Persisted = Base \o <<UserMessage>>
                /\ result.error # "none"
                /\ status = ErrorStatus(result.error)
                /\ status >= 400

C16_Witness ==
    /\ pc = "done" /\ Regular /\ relay = "oknousage" /\ save = "ok"
    /\ status = 200
    /\ Trim(acc) # acc
    /\ Len(Persisted) = Len(Base) + 2

\* C17 (as stated): a failed non-streaming relay call is reported with the
\* error its cause calls for: 401 as an auth error, 429 as a rate-limit
\* error, every 5xx as upstream-unavailable, a timeout as a timeout error,
\* any other transport failure as the generic error; and it is reported after
\* a single HTTP request.
Taxonomy(o) ==
    IF o = "http401" THEN "InvalidApiKey"
    ELSE IF o = "http429" THEN "RateLimit"
    ELSE IF o \in {"http500", "http503"} THEN "Unavailable"
    ELSE IF o = "timeout" THEN "Timeout"
    ELSE "Failed"

TransportFailures ==
    {"http401", "http429", "http500", "http503", "timeout", "network"}

C17_AsStated ==
    (Regular /\ relay \in TransportFailures) =>
        /\ result.error = Taxonomy(relay)
        /\ Len(sent) = 1

\* C18 (as stated): a non-2xx response to the streaming relay call makes the
\* call fail with the error the non-streaming call gives for that status
\* (401 auth, 429 rate limit, 5xx upstream unavailable), and no byte reaches
\* the decoder: no event is yielded.
HttpFailures == {"http401", "http429", "http500", "http503"}

C18_AsStated ==
    (req.stream /\ relay \in HttpFailures) =>
        /\ result.error = Taxonomy(relay)
        /\ sstate = "none" /\ ~pumpOn /\ reads = 0
        /\ decoded = <<>> /\ consumed = <<>>

\* C19: the messages of every request sent upstream are the supplied list
\* with the default system message put in front exactly when the supplied
\* list holds no message of role system; the supplied messages follow in
\* their order, unchanged.
HasSystem(msgs) == \E i \in 1..Len(msgs) : msgs[i].role = "system"

C19_SystemMessageIffNone ==
    [][ Len(sent') > Len(sent) =>
          LET supplied == doc.messages
              out == Last(sent').messages
          IN /\ Len(sent') = Len(sent) + 1
             /\ Last(sent').stream = req.stream
             /\ IF HasSystem(supplied)
                THEN out = supplied
                ELSE /\ Len(out) = Len(supplied) + 1
                     /\ out[1].role = "system"
                     /\ out[1] = SystemMessage
                     /\ \A i \in 1..Len(supplied) : out[i + 1] = supplied[i] ]_vars

C19_Witness ==
    /\ Len(sent) = 1
    /\ Len(sent[1].messages) = MaxHistory + 1
    /\ sent[1].messages[1].role = "user"
    /\ sent[1].messages[2].role = "system"
    /\ Last(sent[1].messages) = UserMessage

\* C20 (as stated): once the client has disconnected in the middle of a
\* streaming session, no further upstream bytes are consumed and the decoder
\* yields nothing more; and when the session is over, a save of the
\* accumulated content has been attempted.
C20_AsStated ==
    [][ /\ gone => (reads' = reads /\ decoded' = decoded)
        /\ (gone' /\ pc' = "done" /\ ShouldSave(acc')) => save' # "none" ]_vars

\* C22: when a read on the upstream body fails, the decoded event sequence is
\* in the error state: the controller's next read rejects, and the read loop
\* never ends as a normal end of the sequence.
C22_ReadFailureIsError ==
    upstream = "failed" =>
        /\ sstate = "errored"
        /\ queue = <<>>
        /\ termin \in {"none", "error"}
        /\ pc \in {"sSave", "sErrFrame", "sEnd", "done"} => termin = "error"

C22_Witness ==
    /\ upstream = "failed"
    /\ termin = "error"
    /\ Len(consumed) >= 1
    /\ pc = "done"

\* C23: once the line 'data: [DONE]' has been read, the decoder has ended the
\* sequence, normally and not in error: it has yielded exactly the events of
\* the lines before the sentinel, nothing of a later line of the same read,
\* and it reads no further.
SentinelRead ==
    \E i \in 1..Len(src) :
        /\ src[i].kind = "done"
        /\ Len(JoinLines(SubSeq(src, 1, i))) <= pos

C23_SentinelEnds ==
    SentinelRead =>
        /\ sstate = "closing"
        /\ ~pumpOn
        /\ decoded = ValidEvents(src)
        /\ queue = decoded

C23_Witness ==
    /\ SentinelRead
    /\ pos < Len(body)
    /\ Len(src) = 3
    /\ src[1].kind = "event" /\ src[2].kind = "done" /\ src[3].kind = "event"
    /\ Len(decoded) = 1

\* C24 (as stated): a get with an id that identifies no conversation of the
\* caller, the malformed id 'invalid-id' among them, is answered with status
\* 404 and an error message that contains 'not found'.
SaysNotFound(message) == message = "Conversation not found or access denied"

C24_AsStated ==
    (pc = "done" /\ req.op = "get" /\ ~Found(db0, req.conversationId, req.userId)) =>
        /\ status = 404
        /\ SaysNotFound(ErrorMessage(result.error))

\* C25 (as stated): once the first user message has been appended to a
\* conversation whose title was the default one, by either send, the
\* persisted title is the first 50 characters of that message, trimmed, with
\* '...' appended when the message is longer than the title.
DerivedTitle(content) ==
    LET t == Trim(SubSeq(content, 1, Min(TitleLen, Len(content)))) IN
    IF Len(t) < Len(content) THEN t \o <<".", ".", ".">> ELSE t

C25_AsStated ==
    ( /\ req.op = "send"
      /\ pc \in {"sRelay", "nRelay"} \/ relay # "none"
      /\ doc.customId \in DOMAIN db
      /\ Len(db[doc.customId].messages) >= 1
      /\ db[doc.customId].messages[1] = UserMessage ) =>
        db[doc.customId].title = DerivedTitle(UserMessage.content)

\* C26 (as stated): no decoded event is lost on a transport error: when the
\* read loop observes the error of a failed upstream read, every event the
\* decoder had enqueued has been handed to the loop, forwarded as a content
\* frame and added to the accumulated content.
C26_AsStated ==
    (Streaming /\ upstream = "failed" /\ termin = "error") =>
        /\ consumed = decoded
        /\ Contents(FramesOfType(frames, "content")) = Deltas(decoded)
        /\ acc = Flatten(Deltas(decoded))

\* C27: in a streaming request no frame is written once the response has been
\* ended, the response is ended at most once, and it is not ended while the
\* read loop is still consuming the event stream: at the end the loop has
\* seen done or an error, the pump has stopped and nothing is left queued.
C27_WriteBeforeSingleEnd ==
    [][ req'.stream =>
          /\ ends >= 1 => (frames' = frames /\ ends' = ends)
          /\ ends' <= 1
          /\ (ends' > ends /\ relay = "ok") =>
                (termin \in {"done", "error"} /\ ~pumpOn /\ queue = <<>>) ]_vars

C27_Witness ==
    /\ pc = "done" /\ req.stream /\ ends = 1
    /\ termin = "error"
    /\ Len(FramesOfType(frames, "content")) >= 1
    /\ Last(frames).type = "error"

\* C30: a streaming send by one user that names a valid id under which another
\* user has a conversation never loads that conversation and changes nothing
\* in the collection: the other user's conversation stays as it was, no
\* second conversation appears under the id, nothing is persisted for the
\* sender and nothing is sent upstream; the request ends with one error frame.
Foreign ==
    /\ req.op = "send" /\ req.stream
    /\ req.conversationId \in DOMAIN db0
    /\ db0[req.conversationId].userId # req.userId

C30_OwnerIsolation ==
    Foreign =>
        /\ db = db0
        /\ doc.userId \in {"nobody", req.userId}
        /\ doc.messages = <<>>
        /\ sent = <<>>
        /\ pc = "done" =>
              /\ Len(frames) = 1 /\ frames[1].type = "error"
              /\ ends = 1 /\ status = 0

C30_Witness ==
    /\ Foreign /\ pc = "done"
    /\ result.error = "MongoError11000"
    /\ doc.customId = "c2" /\ doc.userId = "u1"

\* C29 (as stated): a cleanup never deletes the conversation that a send in
\* flight has created or resolved and not yet appended its user message to,
\* and so the send persists its user message in that conversation whenever
\* the database accepts its writes.
UnderWay == req.op = "send" /\ pc \in {"sAddUser", "nAddUser"}

C29_AsStated ==
    /\ [][ (UnderWay /\ doc.customId \in DOMAIN db) => doc.customId \in DOMAIN db' ]_vars
    /\ [](result.error # "DocumentNotFoundError")

\* C28 (as stated): however the bytes of the response are split into reads,
\* sendMessageStream has called onChunk once per content frame the server
\* wrote, in order, with that frame's content, when it returns.
C28_AsStated ==
    client.returned => client.chunks = Contents(FramesOfType(src, "content"))

\* C21 (as stated): two streaming sends against the same conversation are not
\* mutually excluded, and in the interleaving in which both have loaded the
\* conversation before either saves, a message appended by one of them is
\* missing from the message list that is finally persisted.
Racing == req.op = "send" /\ req.stream /\ req.conversationId = "c1" /\ other.pc # "idle"

Range(s) == {s[i] : i \in 1..Len(s)}

OtherUser == [role |-> "user", content |-> <<"o">>]
OtherReply == [role |-> "assistant", content |-> <<"p">>]

UserSaved == pc = "sRelay" \/ relay # "none"
OtherUserSaved ==
    other.pc \in {"saved", "finished", "failed"} /\ other.doc.saved = Len(other.doc.messages)

\* both sessions hold the list as it was before either of them saved
Raced ==
    /\ Len(doc.messages) = Len(db0["c1"].messages) + 1
    /\ Len(other.doc.messages) = Len(db0["c1"].messages) + 1

C21_AsStated ==
    (Racing /\ Raced /\ UserSaved /\ OtherUserSaved) =>
        \/ UserMessage \notin Range(db["c1"].messages)
        \/ OtherUser \notin Range(db["c1"].messages)

\* C21 (amended): two streaming sends against the same conversation are not
\* mutually excluded: both can be in flight at the same time, each loading
\* the conversation, appending and persisting on its own.  Every save adds
\* the session's new message to the end of the stored list, so no message
\* whose save succeeded is missing from the persisted list: the list is the
\* one the sends found, followed by the messages of both sessions, each once.
Saved ==
    (IF UserSaved THEN {UserMessage} ELSE {})
    \cup (IF save = "ok" THEN {AssistantMessage(Trim(acc))} ELSE {})
    \cup (IF OtherUserSaved THEN {OtherUser} ELSE {})
    \cup (IF other.pc = "finished" THEN {OtherReply} ELSE {})

C21_NoLostUpdate ==
    Racing =>
        /\ "c1" \in DOMAIN db
        /\ IsPrefix(db0["c1"].messages, db["c1"].messages)
        /\ Range(Slice(db["c1"].messages, Len(db0["c1"].messages))) = Saved
        /\ Len(db["c1"].messages) = Len(db0["c1"].messages) + Cardinality(Saved)

C21_Witness ==
    /\ Racing /\ Raced
    /\ pc = "done" /\ save = "ok"
    /\ other.pc = "finished"
    /\ Len(db["c1"].messages) = Len(db0["c1"].messages) + 4
    /\ Last(db["c1"].messages) = AssistantMessage(Trim(acc))

-----------------------------------------------------------------------------
\* Fairness: every continuation of the handler runs once what it awaits has
\* settled, and the upstream body does not stay open for ever: it ends or fails.
FairSpec == Spec /\ WF_vars(Handler) /\ WF_vars(UpstreamSettles)

====
